---------------------------- MODULE Spec2Model ----------------------------
(***************************************************************************)
(* State-machine model of the NEXA NET bot backend: the relational store   *)
(* (users, payments, configs, downloads), the encrypted blobs and staging  *)
(* area on disk, the per-user pending-flow flags, the request handlers and *)
(* the maintenance sweep thread.                                           *)
(*                                                                         *)
(* Time is counted in whole days.  datetime.isoformat() strings of one     *)
(* format compare as the instants they denote, so timestamps are integers  *)
(* and SQL's text comparison on them is integer comparison.  A NULL column *)
(* is the empty sequence, a value v is <<v>>.                              *)
(*                                                                         *)
(* A handler is a coroutine: the code between two awaits runs without      *)
(* interruption by another handler, so each such block is one action.  The *)
(* sweep runs in its own thread; its three steps touch disjoint data  *)
(* and are one action.                *)
(***************************************************************************)
EXTENDS Integers, Sequences, FiniteSets, TLC

\* ------------------------------------------------------------------ bounds
Horizon == 31         \* the clock stops here; it is read at 0, at 30 and daily from then on
MaxExpiry == 61       \* approvals that would push an expiry past this are not issued
MaxPayments == 2      \* payment rows
MaxConfigs == 2       \* config rows
MaxDownloads == 1     \* download records
NumSlots == 2         \* approve callbacks that can be in flight together
MaxNameLen == 4       \* characters of an uploaded file's name
MaxBufLen == 33       \* bytes of a file handed to the encryptor

\* ------------------------------------------------------- program constants
GrantDays == 30
ValidityDays == 30
RevokeDays == 1
MaxAgeHours == 24

\* user ids are kept as text: 7108127485 is beyond the integers TLC can hold
Operator == "7108127485"
Customer == "1001"
Customers == {Customer, "1002"}
UserIds == Customers \cup {Operator}
Requesters == {Operator, Customer}
Categories == {"Safaricom", "Airtel"}
FileNames == {<<"a", ".", "h", "c">>, <<"a", ".", "t", "x", "t">>}
Seconds == {0, 1}
Letters == {".", "h", "c", "H"}
NamesOfLen(k) == [1..k -> Letters]
LongNames == {<<"h", ".", "h", "C">>, <<"a", ".", "e", "h", "i">>, <<"a", ".", "z", "i", "v">>,
              <<"a", ".", "d", "a", "r", "k">>, <<"a", ".", "j", "s", "o", "n">>,
              <<".", "j", "s", "o", "n">>, <<"j", "s", "o", "n">>,
              <<"a", ".", "h", "c", ".", "t", "x", "t">>, <<"a", ".", "t", "x", "t", ".", "h", "c">>}
UploadNames == UNION {NamesOfLen(k) : k \in 0..MaxNameLen} \cup LongNames
Slots == 1..NumSlots

Null == <<>>
Some(v) == <<v>>
Val(x) == x[1]

VARIABLES
  now,        \* datetime.now()
  users,      \* table users: user_id -> row
  payments,   \* table payments: payment_id (1..Len) -> row
  configs,    \* table configs: config_id -> row (deleted ids leave the domain)
  nextConfig, \* AUTOINCREMENT sequence of configs
  downloads,  \* table downloads: sequence of rows
  blobs,      \* files under configs/
  temp,       \* files under temp/
  member,     \* identities the channel reports as members
  flows,      \* context.user_data of every identity
  appr,       \* approve_payment coroutines in flight
  dl,         \* download_config coroutine in flight
  sched,      \* the scheduler thread and what its last job logged
  reply,      \* the last message a handler sent back
  codec       \* a file on its way through ConfigEncryptor

store == <<users, payments, configs, nextConfig, downloads>>
disk == <<blobs, temp>>
vars == <<now, users, payments, configs, nextConfig, downloads, blobs, temp,
          member, flows, appr, dl, sched, reply, codec>>

\* ------------------------------------------------------------------ store
NewUser == [status |-> "pending", expiry |-> Null, downloads |-> 0, admin |-> FALSE]
OperatorRow == [status |-> "approved", expiry |-> Null, downloads |-> 0, admin |-> TRUE]

CreateTables == (Operator :> OperatorRow)

AddUserOrReplace(u) == [v \in DOMAIN users \cup {u} |-> IF v = u THEN NewUser ELSE users[v]]

AddUser(u) == IF u \in DOMAIN users THEN users ELSE users @@ (u :> NewUser)

GetUser(u) == IF u \in DOMAIN users THEN Some(users[u]) ELSE Null

\* SQL "expiry_date < ?": false on NULL
Before(x, t) == x # Null /\ Val(x) < t

UpdateUserExpiryAlwaysFromNow(u, days) ==
  IF u \notin DOMAIN users THEN users
  ELSE [users EXCEPT ![u].expiry = Some(now + days), ![u].status = "approved"]

UpdateUserExpiry(u, days) ==
  IF u \notin DOMAIN users THEN users
  ELSE [users EXCEPT ![u].expiry = IF users[u].expiry # Null
                                   THEN Some(Val(users[u].expiry) + days)
                                   ELSE Some(now + days),
                     ![u].status = "approved"]

UpdatePaymentStatusClearsExpiry(u, st) ==
  IF u \notin DOMAIN users THEN users
  ELSE [users EXCEPT ![u].status = st, ![u].expiry = Null]

UpdatePaymentStatus(u, st) ==
  IF u \notin DOMAIN users THEN users ELSE [users EXCEPT ![u].status = st]

DeleteExpiredUsersWithOperator ==
  [u \in {v \in DOMAIN users :
            ~(Before(users[v].expiry, now) /\ users[v].status = "approved")}
     |-> users[u]]

DeleteExpiredUsers ==
  [u \in {v \in DOMAIN users :
            ~(Before(users[v].expiry, now) /\ users[v].status = "approved"
              /\ v # Operator)}
     |-> users[u]]

AddPayment(u) ==
  Append(payments, [user |-> u, date |-> now, status |-> "pending",
                    note |-> Null, processed |-> Null])

UpdatePayment(p, st, note) ==
  [payments EXCEPT ![p].status = st, ![p].note = Some(note),
                   ![p].processed = IF st # "pending" THEN Some(now) ELSE Null]

\* ORDER BY payment_date; rows of one date come out in rowid order
OrderByPaymentDate(S) ==
  CHOOSE q \in [1..Cardinality(S) -> S] :
    /\ \A p \in S : \E i \in 1..Cardinality(S) : q[i] = p
    /\ \A i, j \in 1..Cardinality(S) :
         i < j => \/ payments[q[i]].date < payments[q[j]].date
                  \/ payments[q[i]].date = payments[q[j]].date /\ q[i] < q[j]

\* payments p JOIN users u ON p.user_id = u.user_id WHERE p.status = 'pending'
GetPendingPayments ==
  OrderByPaymentDate({p \in 1..Len(payments) :
                        payments[p].status = "pending" /\ payments[p].user \in DOMAIN users})

GetPaymentById(p) == IF p \in 1..Len(payments) THEN Some(payments[p]) ELSE Null

\* ------------------------------------------------------------ admin gate
IsAdminRow(u) == u \in DOMAIN users /\ users[u].admin

IsAdmin(u) == u = Operator \/ IsAdminRow(u)

\* ---------------------------------------------------------- pending flows
NoFlow == [payment |-> FALSE, config |-> Null, broadcast |-> FALSE, expire |-> FALSE]

Dispatch(u) ==
  IF flows[u].broadcast THEN "broadcast"
  ELSE IF flows[u].expire THEN "expire"
  ELSE IF flows[u].payment THEN "payment"
  ELSE IF flows[u].config # Null THEN "config"
  ELSE "other"

Say(h, text) == reply' = [handler |-> h, text |-> text]

IdleSlot == [pc |-> "idle", by |-> "", pid |-> 0, owner |-> ""]
NoDownload == [pc |-> "idle", by |-> "", cid |-> 0, tmp |-> Null]
QuietScheduler == [pc |-> "waiting", logged |-> {}]

Boot ==
  /\ now = 0
  /\ users = CreateTables
  /\ payments = <<>>
  /\ configs = <<>>
  /\ nextConfig = 1
  /\ downloads = <<>>
  /\ blobs = {}
  /\ temp = {}
  /\ member = {}
  /\ flows = [u \in UserIds |-> NoFlow]
  /\ appr = [s \in Slots |-> IdleSlot]
  /\ dl = NoDownload
  /\ sched = QuietScheduler
  /\ reply = [handler |-> "none", text |-> "none"]

PlainFile(b) == [pc |-> "plain", input |-> b, blob |-> Null, output |-> Null]

Init == Boot /\ codec = PlainFile(<<>>)

\* ------------------------------------------------------------ environment
Tick ==
  /\ \E t \in {now + 1, now + GrantDays} :
       /\ t <= Horizon
       /\ (t = now + 1) => now >= GrantDays
       /\ now' = t
  /\ UNCHANGED <<sched, codec, store, disk, member, flows, appr, dl, reply>>

JoinChannel(u) ==
  /\ u \notin member
  /\ member' = member \cup {u}
  /\ UNCHANGED <<now, sched, codec, store, disk, flows, appr, dl, reply>>

LeaveChannel(u) ==
  /\ u \in member
  /\ member' = member \ {u}
  /\ UNCHANGED <<now, sched, codec, store, disk, flows, appr, dl, reply>>

\* ------------------------------------------------------------- user.py
Start(u) ==
  /\ users' = AddUser(u)
  /\ Say("show_welcome", "welcome")
  /\ UNCHANGED <<now, sched, codec, payments, configs, nextConfig, downloads, disk, member,
                 flows, appr, dl>>

\* ----------------------------------------------------------- payments.py
ShowPaymentInstructions(u) ==
  /\ flows' = [flows EXCEPT ![u].payment = TRUE]
  /\ Say("show_payment_instructions", "payment instructions")
  /\ UNCHANGED <<now, sched, codec, store, disk, member, appr, dl>>

HandlePaymentProof(u, proof, stored) ==
  /\ Dispatch(u) = "payment"
  /\ Len(payments) < MaxPayments
  /\ IF GetUser(u) = Null
       THEN /\ Say("handle_payment_proof", "user not found")
            /\ UNCHANGED <<users, payments, flows>>
     ELSE IF ~proof
       THEN /\ Say("handle_payment_proof", "send a screenshot")
            /\ UNCHANGED <<users, payments, flows>>
     ELSE IF ~stored
       THEN /\ Say("handle_payment_proof", "failed to record payment")
            /\ UNCHANGED <<users, payments, flows>>
     ELSE /\ payments' = AddPayment(u)
          /\ users' = UpdatePaymentStatus(u, "pending")
          /\ flows' = [flows EXCEPT ![u].payment = FALSE]
          /\ Say("handle_payment_proof", "payment proof received")
  /\ UNCHANGED <<now, sched, codec, configs, nextConfig, downloads, disk, member, appr, dl>>

ListPendingPayments(a) ==
  /\ IF ~IsAdminRow(a) THEN Say("list_pending_payments", "unauthorized")
     ELSE IF Len(GetPendingPayments) = 0 THEN Say("list_pending_payments", "no pending payments")
     ELSE Say("list_pending_payments", "pending payments")
  /\ UNCHANGED <<now, sched, codec, store, disk, member, flows, appr, dl>>

\* approve_payment run to completion, as the dispatcher runs one update at a time
ApprovePayment(a, p) ==
  /\ IF ~IsAdminRow(a)
       THEN /\ Say("approve_payment", "unauthorized")
            /\ UNCHANGED <<users, payments>>
     ELSE IF GetPaymentById(p) = Null
       THEN /\ Say("approve_payment", "payment not found")
            /\ UNCHANGED <<users, payments>>
     ELSE LET o == payments[p].user
          IN /\ (o \in DOMAIN users /\ users[o].expiry # Null)
                  => Val(users[o].expiry) + GrantDays <= MaxExpiry
             /\ payments' = UpdatePayment(p, "approved", "Approved by admin")
             /\ users' = UpdateUserExpiry(o, GrantDays)
             /\ Say("approve_payment", "payment approved")
  /\ UNCHANGED <<now, sched, codec, configs, nextConfig, downloads, disk, member, flows, appr, dl>>

\* approve_payment as a coroutine suspended at its awaits
ApproveBegin(s, a, p) ==
  /\ appr[s].pc = "idle"
  /\ appr' = [appr EXCEPT ![s] = [pc |-> "answered", by |-> a, pid |-> p, owner |-> ""]]
  /\ UNCHANGED <<now, sched, codec, store, disk, member, flows, dl, reply>>

ApproveCommit(s) ==
  /\ appr[s].pc = "answered"
  /\ LET a == appr[s].by
         p == appr[s].pid
     IN IF ~IsAdminRow(a)
          THEN /\ Say("approve_payment", "unauthorized")
               /\ appr' = [appr EXCEPT ![s] = IdleSlot]
               /\ UNCHANGED <<users, payments>>
        ELSE IF GetPaymentById(p) = Null
          THEN /\ Say("approve_payment", "payment not found")
               /\ appr' = [appr EXCEPT ![s] = IdleSlot]
               /\ UNCHANGED <<users, payments>>
        ELSE LET o == payments[p].user
             IN /\ (o \in DOMAIN users /\ users[o].expiry # Null)
                     => Val(users[o].expiry) + GrantDays <= MaxExpiry
                /\ payments' = UpdatePayment(p, "approved", "Approved by admin")
                /\ users' = UpdateUserExpiry(o, GrantDays)
                /\ appr' = [appr EXCEPT ![s].pc = "notify", ![s].owner = o]
                /\ UNCHANGED reply
  /\ UNCHANGED <<now, sched, codec, configs, nextConfig, downloads, disk, member, flows, dl>>

ApproveFinish(s) ==
  /\ appr[s].pc = "notify"
  /\ Say("approve_payment", "payment approved")
  /\ appr' = [appr EXCEPT ![s] = IdleSlot]
  /\ UNCHANGED <<now, sched, codec, store, disk, member, flows, dl>>

RejectPayment(a, p) ==
  /\ IF ~IsAdminRow(a)
       THEN /\ Say("reject_payment", "unauthorized")
            /\ UNCHANGED <<users, payments>>
     ELSE IF GetPaymentById(p) = Null
       THEN /\ Say("reject_payment", "payment not found")
            /\ UNCHANGED <<users, payments>>
     ELSE /\ payments' = UpdatePayment(p, "rejected", "Rejected by admin")
          /\ users' = UpdatePaymentStatus(payments[p].user, "rejected")
          /\ Say("reject_payment", "payment rejected")
  /\ UNCHANGED <<now, sched, codec, configs, nextConfig, downloads, disk, member, flows, appr, dl>>

\* -------------------------------------------------------------- admin.py
\* callback "admin": the Back to Admin buttons and the Cancel button under the
\* broadcast and forced-expiry prompts
ShowAdminPanel(a) ==
  /\ IF ~IsAdmin(a) THEN Say("show_admin_panel", "unauthorized")
     ELSE Say("show_admin_panel", "admin panel")
  /\ UNCHANGED <<now, sched, codec, store, disk, member, flows, appr, dl>>

BroadcastMessage(a) ==
  /\ IF ~IsAdmin(a)
       THEN /\ Say("broadcast_message", "unauthorized")
            /\ UNCHANGED flows
     ELSE /\ flows' = [flows EXCEPT ![a].broadcast = TRUE]
          /\ Say("broadcast_message", "send the broadcast")
  /\ UNCHANGED <<now, sched, codec, store, disk, member, appr, dl>>

ProcessBroadcast(a) ==
  /\ Dispatch(a) = "broadcast"
  /\ IF ~IsAdmin(a)
       THEN UNCHANGED <<flows, reply>>
     ELSE /\ flows' = [flows EXCEPT ![a].broadcast = FALSE]
          /\ Say("process_broadcast", "broadcast complete")
  /\ UNCHANGED <<now, sched, codec, store, disk, member, appr, dl>>

ExpireUser(a) ==
  /\ IF ~IsAdmin(a)
       THEN /\ Say("expire_user", "unauthorized")
            /\ UNCHANGED flows
     ELSE /\ flows' = [flows EXCEPT ![a].expire = TRUE]
          /\ Say("expire_user", "send the user id")
  /\ UNCHANGED <<now, sched, codec, store, disk, member, appr, dl>>

ProcessExpireUserToNow(a, numeric, target) ==
  /\ Dispatch(a) = "expire"
  /\ IF ~IsAdmin(a)
       THEN UNCHANGED <<users, flows, reply>>
     ELSE IF ~numeric
       THEN /\ Say("process_expire_user", "invalid user id")
            /\ UNCHANGED <<users, flows>>
     ELSE IF GetUser(target) = Null
       THEN /\ Say("process_expire_user", "user not found")
            /\ UNCHANGED <<users, flows>>
     ELSE /\ users' = [users EXCEPT ![target].expiry = Some(now)]
          /\ flows' = [flows EXCEPT ![a].expire = FALSE]
          /\ Say("process_expire_user", "user expired")
  /\ UNCHANGED <<now, sched, codec, payments, configs, nextConfig, downloads, disk, member,
                 appr, dl>>

ProcessExpireUser(a, numeric, target) ==
  /\ Dispatch(a) = "expire"
  /\ IF ~IsAdmin(a)
       THEN UNCHANGED <<users, flows, reply>>
     ELSE IF ~numeric
       THEN /\ Say("process_expire_user", "invalid user id")
            /\ UNCHANGED <<users, flows>>
     ELSE IF GetUser(target) = Null
       THEN /\ Say("process_expire_user", "user not found")
            /\ UNCHANGED <<users, flows>>
     ELSE /\ users' = [users EXCEPT ![target].expiry = Some(now - RevokeDays)]
          /\ flows' = [flows EXCEPT ![a].expire = FALSE]
          /\ Say("process_expire_user", "user expired")
  /\ UNCHANGED <<now, sched, codec, payments, configs, nextConfig, downloads, disk, member,
                 appr, dl>>

\* -------------------------------------------------------------- utils.py
Lower(ch) == IF ch = "H" THEN "h" ELSE IF ch = "C" THEN "c" ELSE ch

Max(S) == CHOOSE m \in S : \A x \in S : x <= m

LastIndexOf(s, ch) == Max({0} \cup {i \in 1..Len(s) : s[i] = ch})

\* os.path.splitext(filename)[1]
SplitExt(s) ==
  LET dot == LastIndexOf(s, ".")
      sep == LastIndexOf(s, "/")
  IN IF dot > sep /\ \E i \in (sep + 1)..(dot - 1) : s[i] # "."
       THEN SubSeq(s, dot, Len(s))
       ELSE <<>>

GetFileExtension(s) ==
  LET e == SplitExt(s)
  IN SelectSeq([i \in 1..Len(e) |-> Lower(e[i])], LAMBDA ch : ch # ".")

ValidExtensions == {<<"h", "c">>, <<"e", "h", "i">>, <<"z", "i", "v">>,
                    <<"d", "a", "r", "k">>, <<"j", "s", "o", "n">>}

IsValidConfigExtensionBySuffix(s) ==
  \E e \in ValidExtensions :
    /\ Len(s) > Len(e)
    /\ s[Len(s) - Len(e)] = "."
    /\ \A i \in 1..Len(e) : Lower(s[Len(s) - Len(e) + i]) = e[i]

IsValidConfigExtension(s) == GetFileExtension(s) \in ValidExtensions

\* config_<md5(name_uid_timestamp)[:8]>.<ext>.enc
GenerateFilename(name, u, ts) == [hash |-> <<name, u, ts>>, ext |-> GetFileExtension(name)]

TempPath(ts, name) == [ts |-> ts, name |-> name]

\* a file is removed when its age exceeds max_age_hours
CleanupTempFiles == {f \in temp : ~((now - f.ts[1]) * 24 > MaxAgeHours)}

\* ---------------------------------------------------------- utils, encryptor
BlockSize == 16

\* the PBKDF2 output stands as a fixed string of bytes
Key == [i \in 1..BlockSize |-> (37 * i + 11) % 256]

RECURSIVE XorBits(_, _, _)
XorBits(a, b, n) ==
  IF n = 0 THEN 0
  ELSE (((a % 2) + (b % 2)) % 2) + 2 * XorBits(a \div 2, b \div 2, n - 1)

Xor(a, b) == XorBits(a, b, 8)

XorBlock(x, y) == [i \in 1..BlockSize |-> Xor(x[i], y[i])]

\* the block cipher under the key: a permutation of the blocks and its inverse
EncryptBlock(b) == [i \in 1..BlockSize |-> (b[(i % BlockSize) + 1] + Key[i]) % 256]

DecryptBlock(c) ==
  [j \in 1..BlockSize |->
     LET i == IF j = 1 THEN BlockSize ELSE j - 1
     IN (c[i] + 256 - Key[i]) % 256]

\* cipher block chaining
RECURSIVE CbcEncrypt(_, _)
CbcEncrypt(prev, data) ==
  IF data = <<>> THEN <<>>
  ELSE LET c == EncryptBlock(XorBlock(SubSeq(data, 1, BlockSize), prev))
       IN c \o CbcEncrypt(c, SubSeq(data, BlockSize + 1, Len(data)))

RECURSIVE CbcDecrypt(_, _)
CbcDecrypt(prev, data) ==
  IF data = <<>> THEN <<>>
  ELSE LET c == SubSeq(data, 1, BlockSize)
       IN XorBlock(DecryptBlock(c), prev)
            \o CbcDecrypt(c, SubSeq(data, BlockSize + 1, Len(data)))

\* a pad that adds nothing to a buffer of whole blocks
padToBoundary(data) ==
  LET n == (BlockSize - (Len(data) % BlockSize)) % BlockSize
  IN data \o [i \in 1..n |-> n]

\* PKCS7: n bytes of value n, n in 1..BlockSize
pad(data) ==
  LET n == BlockSize - (Len(data) % BlockSize)
  IN data \o [i \in 1..n |-> n]

\* Null when the padding is malformed (ValueError)
unpad(data) ==
  IF Len(data) = 0 \/ Len(data) % BlockSize # 0 THEN Null
  ELSE LET n == data[Len(data)]
       IN IF n < 1 \/ n > BlockSize THEN Null
          ELSE IF \E i \in (Len(data) - n + 1)..Len(data) : data[i] # n THEN Null
          ELSE Some(SubSeq(data, 1, Len(data) - n))

SampleBytes == {0, 1, 16, 255}

Buffers ==
  {[i \in 1..k |-> IF i = k THEN last ELSE fill] :
     k \in 0..MaxBufLen, fill \in SampleBytes, last \in SampleBytes}

IVs == {[i \in 1..BlockSize |-> 0], [i \in 1..BlockSize |-> (255 + i) % 256]}

EncryptFile(iv) ==
  /\ codec.pc = "plain"
  /\ codec' = [codec EXCEPT !.pc = "encrypted",
                            !.blob = Some(iv \o CbcEncrypt(iv, pad(codec.input)))]
  /\ UNCHANGED <<now, sched, store, disk, member, flows, appr, dl, reply>>

DecryptFile ==
  /\ codec.pc = "encrypted"
  /\ LET data == Val(codec.blob)
         iv == SubSeq(data, 1, BlockSize)
         ciphertext == SubSeq(data, BlockSize + 1, Len(data))
     IN IF Len(data) < BlockSize \/ Len(ciphertext) % BlockSize # 0
          THEN codec' = [codec EXCEPT !.pc = "failed"]
        ELSE LET decrypted == unpad(CbcDecrypt(iv, ciphertext))
             IN IF decrypted = Null
                  THEN codec' = [codec EXCEPT !.pc = "failed"]
                  ELSE codec' = [codec EXCEPT !.pc = "decrypted", !.output = decrypted]
  /\ UNCHANGED <<now, sched, store, disk, member, flows, appr, dl, reply>>

\* ------------------------------------------------------------ store, configs
AddConfig(id, fname, name, cat, days) ==
  configs @@ (id :> [filename |-> fname, original |-> name, category |-> cat,
                     upload |-> now, expiry |-> now + days, downloads |-> 0,
                     active |-> TRUE])

FilenameTaken(fname) == \E c \in DOMAIN configs : configs[c].filename = fname

GetConfig(c) == IF c \in DOMAIN configs THEN Some(configs[c]) ELSE Null

GetConfigsByCategory(cat) ==
  {c \in DOMAIN configs : configs[c].category = cat /\ configs[c].active}

RecordDownload(c) ==
  IF c \in DOMAIN configs
    THEN [configs EXCEPT ![c].downloads = configs[c].downloads + 1]
    ELSE configs

IncrementDownloads(u) ==
  IF u \in DOMAIN users
    THEN [users EXCEPT ![u].downloads = users[u].downloads + 1]
    ELSE users

DeleteExpiredConfigsToggle ==
  [c \in DOMAIN configs |->
     IF configs[c].expiry < now
       THEN [configs[c] EXCEPT !.active = ~configs[c].active]
       ELSE configs[c]]

DeleteExpiredConfigsHard ==
  [c \in {d \in DOMAIN configs : ~(configs[d].expiry < now /\ configs[d].active)}
     |-> configs[c]]

DeleteExpiredConfigs ==
  [c \in DOMAIN configs |->
     IF configs[c].expiry < now /\ configs[c].active
       THEN [configs[c] EXCEPT !.active = FALSE]
       ELSE configs[c]]

DeleteConfigRow(c) == [d \in DOMAIN configs \ {c} |-> configs[d]]

\* ------------------------------------------------------------ access checks
AccessRefusalNoGate(u, r) ==
  IF r.status # "approved" THEN "payment required"
  ELSE IF r.expiry # Null /\ Val(r.expiry) < now THEN "subscription expired"
  ELSE ""

AccessRefusalAtExpiry(u, r) ==
  IF u \notin member THEN "join the channel"
  ELSE IF r.status # "approved" THEN "payment required"
  ELSE IF r.expiry # Null /\ Val(r.expiry) <= now THEN "subscription expired"
  ELSE ""

AccessRefusalPaymentFirst(u, r) ==
  IF r.status # "approved" THEN "payment required"
  ELSE IF r.expiry # Null /\ Val(r.expiry) < now THEN "subscription expired"
  ELSE IF u \notin member THEN "join the channel"
  ELSE ""

\* the first check that refuses user row r, "" when none does
AccessRefusal(u, r) ==
  IF u \notin member THEN "join the channel"
  ELSE IF r.status # "approved" THEN "payment required"
  ELSE IF r.expiry # Null /\ Val(r.expiry) < now THEN "subscription expired"
  ELSE ""

\* -------------------------------------------------------------- user.py
ShowCategorySelection(u) ==
  /\ IF GetUser(u) = Null THEN Say("show_category_selection", "user not found")
     ELSE IF AccessRefusal(u, users[u]) # "" THEN Say("show_category_selection", AccessRefusal(u, users[u]))
     ELSE Say("show_category_selection", "select category")
  /\ UNCHANGED <<now, sched, codec, store, disk, member, flows, appr, dl>>

\* ------------------------------------------------------------ configs.py
HandleCategorySelection(u, cat) ==
  /\ flows' = [flows EXCEPT ![u].config = Some(cat)]
  /\ Say("handle_category_selection", "send the config file")
  /\ UNCHANGED <<now, sched, codec, store, disk, member, appr, dl>>

HandleUpload(u, doc, name, sec, encOk, insOk) ==
  /\ Dispatch(u) = "config"
  /\ nextConfig <= MaxConfigs
  /\ LET fname == GenerateFilename(name, u, <<now, sec>>)
         tpath == TempPath(<<now, sec>>, name)
     IN IF ~IsAdminRow(u)
          THEN /\ Say("handle_upload", "unauthorized")
               /\ UNCHANGED <<configs, nextConfig, blobs, temp, flows>>
        ELSE IF ~doc
          THEN /\ Say("handle_upload", "send a config file")
               /\ UNCHANGED <<configs, nextConfig, blobs, temp, flows>>
        ELSE IF ~IsValidConfigExtension(name)
          THEN /\ Say("handle_upload", "invalid file type")
               /\ UNCHANGED <<configs, nextConfig, blobs, temp, flows>>
        ELSE IF ~encOk
          THEN /\ temp' = temp \cup {tpath}
               /\ Say("handle_upload", "failed to encrypt")
               /\ UNCHANGED <<configs, nextConfig, blobs, flows>>
        ELSE IF FilenameTaken(fname) \/ ~insOk
          THEN /\ temp' = temp \cup {tpath}
               /\ blobs' = blobs \cup {fname}
               /\ Say("handle_upload", "failed to save")
               /\ UNCHANGED <<configs, nextConfig, flows>>
        ELSE /\ blobs' = blobs \cup {fname}
             /\ configs' = AddConfig(nextConfig, fname, name, Val(flows[u].config),
                                     ValidityDays)
             /\ nextConfig' = nextConfig + 1
             /\ temp' = temp \ {tpath}
             /\ flows' = [flows EXCEPT ![u].config = Null]
             /\ Say("handle_upload", "config uploaded")
  /\ UNCHANGED <<now, sched, codec, users, payments, downloads, member, appr, dl>>

ListConfigs(u, cat) ==
  /\ IF GetConfigsByCategory(cat) = {} THEN Say("list_configs", "no configs")
     ELSE Say("list_configs", "select a config")
  /\ UNCHANGED <<now, sched, codec, store, disk, member, flows, appr, dl>>

DownloadCheck(u, c, sec, decOk) ==
  /\ dl.pc = "idle"
  /\ Len(downloads) < MaxDownloads
  /\ LET tpath == TempPath(<<now, sec>>, configs[c].original)
     IN IF GetUser(u) = Null
          THEN /\ Say("download_config", "user not found")
               /\ UNCHANGED <<temp, dl>>
        ELSE IF AccessRefusal(u, users[u]) # ""
          THEN /\ Say("download_config", AccessRefusal(u, users[u]))
               /\ UNCHANGED <<temp, dl>>
        ELSE IF GetConfig(c) = Null \/ ~configs[c].active
          THEN /\ Say("download_config", "config not found or expired")
               /\ UNCHANGED <<temp, dl>>
        ELSE IF ~(configs[c].filename \in blobs /\ decOk)
          THEN /\ Say("download_config", "error decrypting")
               /\ UNCHANGED <<temp, dl>>
        ELSE /\ temp' = temp \cup {tpath}
             /\ dl' = [pc |-> "sending", by |-> u, cid |-> c, tmp |-> Some(tpath)]
             /\ UNCHANGED reply
  /\ UNCHANGED <<now, sched, codec, store, blobs, member, flows, appr>>

DownloadDeliver(sent) ==
  /\ dl.pc = "sending"
  /\ IF ~sent
       THEN /\ Say("download_config", "error downloading")
            /\ UNCHANGED <<users, configs, downloads, temp>>
     ELSE /\ downloads' = Append(downloads, [user |-> dl.by, config |-> dl.cid, date |-> now])
          /\ configs' = RecordDownload(dl.cid)
          /\ users' = IncrementDownloads(dl.by)
          /\ temp' = temp \ {Val(dl.tmp)}
          /\ IF Val(dl.tmp) \in temp THEN Say("download_config", "config downloaded")
             ELSE Say("download_config", "error downloading")
  /\ dl' = NoDownload
  /\ UNCHANGED <<now, sched, codec, payments, nextConfig, blobs, member, flows, appr>>

DeleteConfig(a, c, delOk) ==
  /\ IF ~IsAdminRow(a)
       THEN /\ Say("delete_config", "unauthorized")
            /\ UNCHANGED <<configs, blobs>>
     ELSE IF GetConfig(c) = Null
       THEN /\ Say("delete_config", "config not found")
            /\ UNCHANGED <<configs, blobs>>
     ELSE IF ~delOk
       THEN /\ blobs' = blobs \ {configs[c].filename}
            /\ Say("delete_config", "failed to delete")
            /\ UNCHANGED configs
     ELSE /\ blobs' = blobs \ {configs[c].filename}
          /\ configs' = DeleteConfigRow(c)
          /\ Say("delete_config", "config deleted")
  /\ UNCHANGED <<now, sched, codec, users, payments, nextConfig, downloads, temp, member, flows,
                 appr, dl>>

\* --------------------------------------------------------------- main.py
CancelEveryone(u) ==
  /\ flows' = [v \in UserIds |-> NoFlow]
  /\ Say("cancel", "operation cancelled")
  /\ UNCHANGED <<now, sched, codec, store, disk, member, appr, dl>>

Cancel(u) ==
  /\ flows' = [flows EXCEPT ![u] = NoFlow]
  /\ Say("cancel", "operation cancelled")
  /\ UNCHANGED <<now, sched, codec, store, disk, member, appr, dl>>

\* the steps of one job_cleanup run that logged an error
Logged(uOk, cOk, tOk) ==
  (IF uOk THEN {} ELSE {"delete_expired_users"})
    \cup (IF cOk THEN {} ELSE {"delete_expired_configs"})
    \cup (IF tOk THEN {} ELSE {"cleanup_temp_files"})

JobCleanupStopsAtFault(uOk, cOk, tOk) ==
  /\ sched.pc = "waiting"
  /\ users' = IF uOk THEN DeleteExpiredUsers ELSE users
  /\ configs' = IF uOk /\ cOk THEN DeleteExpiredConfigs ELSE configs
  /\ temp' = IF uOk /\ cOk /\ tOk THEN CleanupTempFiles ELSE temp
  /\ sched' = [pc |-> IF uOk /\ cOk /\ tOk THEN "waiting" ELSE "dead",
               logged |-> {}]
  /\ UNCHANGED <<now, codec, payments, nextConfig, downloads, blobs, member, flows, appr, dl, reply>>

\* job_cleanup, run by the scheduler thread; a step that is not Ok hits an
\* exception (store unavailable, staging area unreadable), which the step
\* itself catches and logs
JobCleanupWith(uOk, cOk, tOk) ==
  /\ sched.pc = "waiting"
  /\ users' = IF uOk THEN DeleteExpiredUsers ELSE users
  /\ configs' = IF cOk THEN DeleteExpiredConfigs ELSE configs
  /\ temp' = IF tOk THEN CleanupTempFiles ELSE temp
  /\ sched' = [pc |-> "waiting", logged |-> Logged(uOk, cOk, tOk)]
  /\ UNCHANGED <<now, codec, payments, nextConfig, downloads, blobs, member, flows, appr, dl, reply>>

\* job_cleanup with every step succeeding
JobCleanup == JobCleanupWith(TRUE, TRUE, TRUE)

Next ==
  \/ Tick
  \/ \E iv \in IVs : EncryptFile(iv)
  \/ DecryptFile
  \/ \E u \in Customers : JoinChannel(u)
  \/ \E u \in Customers : LeaveChannel(u)
  \/ \E u \in Customers : Start(u)
  \/ \E u \in Customers : ShowPaymentInstructions(u)
  \/ \E u \in Customers, proof \in BOOLEAN, stored \in BOOLEAN :
       HandlePaymentProof(u, proof, stored)
  \/ \E s \in Slots, a \in UserIds, p \in 1..MaxPayments : ApproveBegin(s, a, p)
  \/ \E s \in Slots : ApproveCommit(s)
  \/ \E s \in Slots : ApproveFinish(s)
  \/ \E a \in UserIds, p \in 1..MaxPayments : RejectPayment(a, p)
  \/ \E a \in UserIds : ListPendingPayments(a)
  \/ \E a \in UserIds : ShowAdminPanel(a)
  \/ \E a \in UserIds : BroadcastMessage(a)
  \/ \E a \in UserIds : ProcessBroadcast(a)
  \/ \E a \in UserIds : ExpireUser(a)
  \/ \E a \in UserIds, numeric \in BOOLEAN, t \in UserIds : ProcessExpireUser(a, numeric, t)
  \/ \E u \in Customers : ShowCategorySelection(u)
  \/ \E u \in UserIds, cat \in Categories : HandleCategorySelection(u, cat)
  \/ \E u \in UserIds, doc \in BOOLEAN, n \in FileNames, sec \in Seconds,
          encOk \in BOOLEAN, insOk \in BOOLEAN :
       HandleUpload(u, doc, n, sec, encOk, insOk)
  \/ \E u \in Customers, cat \in Categories : ListConfigs(u, cat)
  \/ \E u \in Customers, c \in 1..MaxConfigs, sec \in Seconds, ok \in BOOLEAN :
       DownloadCheck(u, c, sec, ok)
  \/ \E sent \in BOOLEAN : DownloadDeliver(sent)
  \/ \E a \in UserIds, c \in 1..MaxConfigs, delOk \in BOOLEAN : DeleteConfig(a, c, delOk)
  \/ \E u \in UserIds : Cancel(u)
  \/ \E uOk \in BOOLEAN, cOk \in BOOLEAN, tOk \in BOOLEAN : JobCleanupWith(uOk, cOk, tOk)

Spec == Init /\ [][Next]_vars

\* The payment workflow and the subscription lifecycle of one customer.
NextPay ==
  \/ Tick
  \/ Start(Customer)
  \/ ShowPaymentInstructions(Customer)
  \/ HandlePaymentProof(Customer, TRUE, TRUE)
  \/ \E p \in 1..MaxPayments : ApprovePayment(Operator, p)
  \/ \E p \in 1..MaxPayments : RejectPayment(Operator, p)
  \/ ExpireUser(Operator)
  \/ \E t \in {Operator, Customer} : ProcessExpireUser(Operator, TRUE, t)
  \/ JobCleanup

SpecPay == Init /\ [][NextPay]_vars

\* Approve callbacks of the operator suspended at their awaits together.
NextRace ==
  \/ Tick
  \/ Start(Customer)
  \/ ShowPaymentInstructions(Customer)
  \/ HandlePaymentProof(Customer, TRUE, TRUE)
  \/ \E s \in Slots, p \in 1..MaxPayments : ApproveBegin(s, Operator, p)
  \/ \E s \in Slots : ApproveCommit(s)
  \/ \E s \in Slots : ApproveFinish(s)

SpecRace == Init /\ [][NextRace]_vars

\* The access checks on the browsing and download path.
NextAccess ==
  \/ Tick
  \/ \E u \in {Operator, Customer} : JoinChannel(u)
  \/ LeaveChannel(Customer)
  \/ Start(Customer)
  \/ ShowPaymentInstructions(Customer)
  \/ Len(payments) = 0 /\ HandlePaymentProof(Customer, TRUE, TRUE)
  \/ ApprovePayment(Operator, 1)
  \/ RejectPayment(Operator, 1)
  \/ \E u \in {Operator, Customer} : ShowCategorySelection(u)
  \/ HandleCategorySelection(Operator, "Safaricom")
  \/ nextConfig = 1 /\ \E n \in FileNames : HandleUpload(Operator, TRUE, n, 0, TRUE, TRUE)
  \/ \E u \in {Operator, Customer}, c \in 1..MaxConfigs : DownloadCheck(u, c, 0, TRUE)
  \/ DownloadDeliver(TRUE)
  \/ JobCleanup

SpecAccess == Init /\ [][NextAccess]_vars

\* The file lifecycle: upload, listing, download, delete and expiry.
NextCatalog ==
  \/ Tick
  \/ JoinChannel(Operator)
  \/ \E cat \in Categories : HandleCategorySelection(Operator, cat)
  \/ \E n \in FileNames, sec \in Seconds : HandleUpload(Operator, TRUE, n, sec, TRUE, TRUE)
  \/ \E cat \in Categories : ListConfigs(Operator, cat)
  \/ \E c \in 1..MaxConfigs : DownloadCheck(Operator, c, 0, TRUE)
  \/ \E sent \in BOOLEAN : DownloadDeliver(sent)
  \/ \E c \in 1..MaxConfigs : DeleteConfig(Operator, c, TRUE)
  \/ JobCleanup

SpecCatalog == Init /\ [][NextCatalog]_vars

\* The maintenance sweep with steps that can fail, over one subscription and
\* the uploads of the operator.
NextSweep ==
  \/ Tick
  \/ Start(Customer)
  \/ ShowPaymentInstructions(Customer)
  \/ Len(payments) = 0 /\ HandlePaymentProof(Customer, TRUE, TRUE)
  \/ ApprovePayment(Operator, 1)
  \/ HandleCategorySelection(Operator, "Safaricom")
  \/ \E n \in FileNames, encOk \in BOOLEAN : HandleUpload(Operator, TRUE, n, 0, encOk, TRUE)
  \/ \E uOk \in BOOLEAN, cOk \in BOOLEAN, tOk \in BOOLEAN : JobCleanupWith(uOk, cOk, tOk)

SpecSweep == Init /\ [][NextSweep]_vars

\* One customer who pays, downloads and renews.
NextRenewal ==
  \/ Tick
  \/ Start(Customer)
  \/ JoinChannel(Customer)
  \/ ShowPaymentInstructions(Customer)
  \/ \E stored \in BOOLEAN : HandlePaymentProof(Customer, TRUE, stored)
  \/ \E p \in 1..MaxPayments : ApprovePayment(Operator, p)
  \/ \E p \in 1..MaxPayments : RejectPayment(Operator, p)
  \/ HandleCategorySelection(Operator, "Safaricom")
  \/ nextConfig = 1 /\ \E n \in FileNames : HandleUpload(Operator, TRUE, n, 0, TRUE, TRUE)
  \/ \E c \in 1..MaxConfigs : DownloadCheck(Customer, c, 0, TRUE)
  \/ DownloadDeliver(TRUE)

SpecRenewal == Init /\ [][NextRenewal]_vars

\* One customer who pays and downloads, and the operator's forced expiry.
NextRevoke ==
  \/ Tick
  \/ Start(Customer)
  \/ JoinChannel(Customer)
  \/ ShowPaymentInstructions(Customer)
  \/ Len(payments) = 0 /\ HandlePaymentProof(Customer, TRUE, TRUE)
  \/ ApprovePayment(Operator, 1)
  \/ HandleCategorySelection(Operator, "Safaricom")
  \/ nextConfig = 1 /\ \E n \in FileNames : HandleUpload(Operator, TRUE, n, 0, TRUE, TRUE)
  \/ \E c \in 1..MaxConfigs : DownloadCheck(Customer, c, 0, TRUE)
  \/ DownloadDeliver(TRUE)
  \/ ExpireUser(Operator)
  \/ \E t \in Customers : ProcessExpireUser(Operator, TRUE, t)

SpecRevoke == Init /\ [][NextRevoke]_vars

\* The operator's review queue, with the sweep removing expired customers.
NextQueue ==
  \/ Tick
  \/ Start(Customer)
  \/ ShowPaymentInstructions(Customer)
  \/ HandlePaymentProof(Customer, TRUE, TRUE)
  \/ \E p \in 1..MaxPayments : ApprovePayment(Operator, p)
  \/ \E p \in 1..MaxPayments : RejectPayment(Operator, p)
  \/ ListPendingPayments(Operator)
  \/ JobCleanup

SpecQueue == Init /\ [][NextQueue]_vars

\* The prompts that open a pending flow, and the cancel command.
NextFlows ==
  \/ \E u \in Customers : Start(u)
  \/ \E u \in UserIds : ShowPaymentInstructions(u)
  \/ \E u \in UserIds, cat \in Categories : HandleCategorySelection(u, cat)
  \/ \E a \in UserIds : BroadcastMessage(a)
  \/ \E a \in UserIds : ExpireUser(a)
  \/ \E u \in UserIds : Cancel(u)

SpecFlows == Init /\ [][NextFlows]_vars

\* Uploads and deletes of the operator with failing encryption and a failing
\* store, and the sweep.
NextStorage ==
  \/ Tick
  \/ \E cat \in Categories : HandleCategorySelection(Operator, cat)
  \/ \E n \in FileNames, sec \in Seconds, encOk \in BOOLEAN, insOk \in BOOLEAN :
       HandleUpload(Operator, TRUE, n, sec, encOk, insOk)
  \/ \E c \in 1..MaxConfigs, delOk \in BOOLEAN : DeleteConfig(Operator, c, delOk)
  \/ JobCleanup

SpecStorage == Init /\ [][NextStorage]_vars

\* Every operator function, invoked by the operator and by a customer.
NextGate ==
  \/ Start(Customer)
  \/ ShowPaymentInstructions(Customer)
  \/ Len(payments) = 0 /\ HandlePaymentProof(Customer, TRUE, TRUE)
  \/ \E a \in Requesters : ApprovePayment(a, 1)
  \/ \E a \in Requesters : RejectPayment(a, 1)
  \/ \E a \in Requesters : HandleCategorySelection(a, "Safaricom")
  \/ nextConfig = 1 /\ \E a \in Requesters, n \in FileNames :
                          HandleUpload(a, TRUE, n, 0, TRUE, TRUE)
  \/ \E a \in Requesters : DeleteConfig(a, 1, TRUE)
  \/ \E a \in Requesters : BroadcastMessage(a)
  \/ \E a \in Requesters : ProcessBroadcast(a)
  \/ \E a \in Requesters : ExpireUser(a)
  \/ \E a \in Requesters, t \in Customers : ProcessExpireUser(a, TRUE, t)

SpecGate == Init /\ [][NextGate]_vars

\* One customer's own actions and the operator's decisions about that customer.
NextTenure ==
  \/ Tick
  \/ Start(Customer)
  \/ JoinChannel(Customer)
  \/ ShowPaymentInstructions(Customer)
  \/ HandlePaymentProof(Customer, TRUE, TRUE)
  \/ Cancel(Customer)
  \/ \E p \in 1..MaxPayments : ApprovePayment(Operator, p)
  \/ \E p \in 1..MaxPayments : RejectPayment(Operator, p)
  \/ ExpireUser(Operator)
  \/ ProcessExpireUser(Operator, TRUE, Customer)
  \/ HandleCategorySelection(Operator, "Safaricom")
  \/ nextConfig = 1 /\ HandleUpload(Operator, TRUE, <<"a", ".", "h", "c">>, 0, TRUE, TRUE)
  \/ DownloadCheck(Customer, 1, 0, TRUE)
  \/ DownloadDeliver(TRUE)

SpecTenure == Init /\ [][NextTenure]_vars

\* The operator's prompts, the messages answering them, the Cancel button
\* under a prompt (callback "admin") and the cancel command.
NextPrompts ==
  \/ Tick
  \/ \E u \in Customers : Start(u)
  \/ BroadcastMessage(Operator)
  \/ ExpireUser(Operator)
  \/ ShowAdminPanel(Operator)
  \/ ProcessBroadcast(Operator)
  \/ \E numeric \in BOOLEAN, t \in Customers : ProcessExpireUser(Operator, numeric, t)
  \/ Cancel(Operator)

SpecPrompts == Init /\ [][NextPrompts]_vars

\* Uploads of the operator under every short file name.
NextExtension ==
  \/ \E cat \in Categories : HandleCategorySelection(Operator, cat)
  \/ /\ nextConfig = 1
     /\ \E n \in UploadNames, sec \in Seconds : HandleUpload(Operator, TRUE, n, sec, TRUE, TRUE)
  \/ Cancel(Operator)

SpecExtension == Init /\ [][NextExtension]_vars

\* Files of every sampled content through the encryptor and back.
InitCodec == Boot /\ codec \in {PlainFile(b) : b \in Buffers}

NextCodec ==
  \/ \E iv \in IVs : EncryptFile(iv)
  \/ DecryptFile

SpecCodec == InitCodec /\ [][NextCodec]_vars

\* ================================================================ claims
Terminal == {"approved", "rejected"}

Owned(p) == payments[p].user \in DOMAIN users

\* C1: once a payment's status is approved or rejected, no later approve or
\* reject changes its status, its admin note or its processed date.
C1_TerminalPaymentFrozen ==
  [][\A p \in 1..Len(payments) :
       payments[p].status \in Terminal
         => /\ payments'[p].status = payments[p].status
            /\ payments'[p].note = payments[p].note
            /\ payments'[p].processed = payments[p].processed]_vars

\* C2: approving a payment that is already approved or rejected answers
\* "already processed" and leaves the owner's expiry as it was.
C2_ReapprovalRefused ==
  [][\A p \in 1..Len(payments) :
       (ApprovePayment(Operator, p) /\ payments[p].status \in Terminal)
         => /\ reply'.text = "already processed"
            /\ Owned(p) => users'[payments[p].user].expiry = users[payments[p].user].expiry]_vars

C4_ExpiryAdditive ==
  [][\A p \in 1..Len(payments) :
       (/\ ApprovePayment(Operator, p)
        /\ payments[p].status = "pending"
        /\ Owned(p)
        /\ users[payments[p].user].expiry # Null
        /\ Val(users[payments[p].user].expiry) > now)
         => /\ users'[payments[p].user].expiry
                 = Some(Val(users[payments[p].user].expiry) + GrantDays)
            /\ users'[payments[p].user].status = "approved"]_vars

\* two payments approved on day 0, the second on top of the 30 days of the first
C4_Witness ==
  /\ now = 0
  /\ Len(payments) = 2
  /\ \A p \in 1..2 : payments[p].status = "approved" /\ payments[p].processed = Some(0)
  /\ Customer \in DOMAIN users
  /\ users[Customer].expiry = Some(2 * GrantDays)
  /\ users[Customer].status = "approved"
  /\ reply = [handler |-> "approve_payment", text |-> "payment approved"]

\* C5: approving a pending payment of a user whose expiry is null or in the past
\* makes the expiry now + 30 days.
C5_ExpiryReset ==
  [][\A p \in 1..Len(payments) :
       (/\ ApprovePayment(Operator, p)
        /\ payments[p].status = "pending"
        /\ Owned(p)
        /\ (users[payments[p].user].expiry = Null
              \/ Val(users[payments[p].user].expiry) < now))
         => users'[payments[p].user].expiry = Some(now + GrantDays)]_vars

\* ---- eligibility as section 4.2 states it, and as the handlers compute it
EligibleStrict(r) == r.status = "approved" /\ (r.expiry = Null \/ Val(r.expiry) > now)

EligibleNotPast(r) == r.status = "approved" /\ (r.expiry = Null \/ Val(r.expiry) >= now)

SubscriptionRefusals == {"payment required", "subscription expired"}

\* the download request of u for config c is turned away for the subscription
DownloadRefused(u, c) ==
  DownloadCheck(u, c, 0, TRUE) => (dl'.pc = "idle" /\ reply'.text \in SubscriptionRefusals)

DownloadPassed(u, c) ==
  DownloadCheck(u, c, 0, TRUE) => ~(dl'.pc = "idle" /\ reply'.text \in SubscriptionRefusals)

BrowseRefused(u) == ShowCategorySelection(u) => reply'.text \in SubscriptionRefusals

BrowsePassed(u) == ShowCategorySelection(u) => reply'.text \notin SubscriptionRefusals

FileRefused(c) == c \notin DOMAIN configs \/ ~configs[c].active

SubscriptionRefusal(r) ==
  IF r.status # "approved" THEN "payment required"
  ELSE IF r.expiry # Null /\ Val(r.expiry) < now THEN "subscription expired"
  ELSE ""

\* the reason the download request must report under the order given
SubscriptionFirst(u, c) ==
  IF SubscriptionRefusal(users[u]) # "" THEN SubscriptionRefusal(users[u])
  ELSE IF u \notin member THEN "join the channel"
  ELSE IF FileRefused(c) THEN "config not found or expired"
  ELSE ""

MembershipFirst(u, c) ==
  IF u \notin member THEN "join the channel"
  ELSE IF SubscriptionRefusal(users[u]) # "" THEN SubscriptionRefusal(users[u])
  ELSE IF FileRefused(c) THEN "config not found or expired"
  ELSE ""

Reports(u, c, reason) ==
  DownloadCheck(u, c, 0, TRUE) =>
    IF reason = "" THEN dl'.pc = "sending" \/ reply'.text = "error decrypting"
    ELSE dl'.pc = "idle" /\ reply' = [handler |-> "download_config", text |-> reason]

Listed(c) == c \in GetConfigsByCategory(configs[c].category)

\* C8: a file past its expiry, or with active = false, is not in its category's
\* listing and no download request for it gets as far as sending it.
C8_ExpiredNeverServed ==
  [][\A c \in DOMAIN configs :
       (configs[c].expiry < now \/ ~configs[c].active)
         => /\ ~Listed(c)
            /\ \A u \in Requesters : ~(DownloadCheck(u, c, 0, TRUE) /\ dl'.pc = "sending")]_vars

SweepTarget(u) ==
  /\ users[u].status = "approved"
  /\ users[u].expiry # Null
  /\ Val(users[u].expiry) < now
  /\ u # Operator

\* C9: a sweep removes exactly the approved, expired, non-operator users and
\* leaves every other row as it was; the operator's row always exists.
C9_SweepRemovesExactlyExpired ==
  /\ Operator \in DOMAIN users
  /\ [][/\ JobCleanup =>
             /\ DOMAIN users' = {u \in DOMAIN users : ~SweepTarget(u)}
             /\ \A u \in DOMAIN users' : users'[u] = users[u]
        /\ Operator \in DOMAIN users']_vars

\* the customer approved on day 0 is gone on day 31, the sweep having run
C9_Witness ==
  /\ now = GrantDays + 1
  /\ Customer \notin DOMAIN users
  /\ Len(payments) = 1
  /\ payments[1].user = Customer
  /\ payments[1].status = "approved"
  /\ payments[1].processed = Some(0)
  /\ reply = [handler |-> "approve_payment", text |-> "payment approved"]

ListedUntilExpiry ==
  \A c \in DOMAIN configs :
    /\ configs[c].expiry = configs[c].upload + ValidityDays
    /\ now <= configs[c].expiry => Listed(c)

C11_SweepIdempotent ==
  [][JobCleanup =>
       /\ DeleteExpiredUsers' = users'
       /\ DeleteExpiredConfigs' = configs'
       /\ payments' = payments
       /\ downloads' = downloads
       /\ sched' = QuietScheduler]_vars

\* a sweep has removed the customer and deactivated a file on day 31
C11_Witness ==
  /\ now = GrantDays + 1
  /\ sched = QuietScheduler
  /\ Customer \notin DOMAIN users
  /\ Len(payments) = 1
  /\ payments[1].status = "approved"
  /\ \E c \in DOMAIN configs : configs[c].expiry < now /\ ~configs[c].active

\* C12: whichever steps of a sweep fail, every other step has its full effect
\* in the same run, each failure is logged and the scheduler goes on waiting.
C12_SweepStepsIsolated ==
  [][\A uOk \in BOOLEAN, cOk \in BOOLEAN, tOk \in BOOLEAN :
       JobCleanupWith(uOk, cOk, tOk) =>
         /\ uOk => users' = DeleteExpiredUsers
         /\ cOk => configs' = DeleteExpiredConfigs
         /\ tOk => temp' = CleanupTempFiles
         /\ sched'.pc = "waiting"
         /\ sched'.logged = Logged(uOk, cOk, tOk)]_vars

\* the user step failed on day 31, leaving the expired customer, while the file
\* step deactivated the expired file and the staging area was purged
C12_Witness ==
  /\ now = GrantDays + 1
  /\ sched = [pc |-> "waiting", logged |-> {"delete_expired_users"}]
  /\ Customer \in DOMAIN users
  /\ users[Customer].status = "approved"
  /\ users[Customer].expiry = Some(GrantDays)
  /\ \E c \in DOMAIN configs : configs[c].expiry < now /\ ~configs[c].active
  /\ temp = {}
  /\ reply = [handler |-> "handle_upload", text |-> "failed to encrypt"]

Recorded == reply' = [handler |-> "handle_payment_proof", text |-> "payment proof received"]

C14_RejectOnlyPending ==
  [][\A p \in 1..Len(payments) :
       RejectPayment(Operator, p) =>
         IF payments[p].status = "pending"
           THEN /\ payments' = [payments EXCEPT ![p].status = "rejected",
                                                ![p].note = payments'[p].note,
                                                ![p].processed = Some(now)]
                /\ Owned(p) => users' = [users EXCEPT ![payments[p].user].status = "rejected"]
           ELSE payments' = payments /\ users' = users]_vars

\* C20: a forced expiry of an existing user sets that user's expiry to one day
\* before now and nothing else in the row, after which the access checks refuse
\* the user; a forced expiry of an unknown identity changes no row.
C20_ForcedExpiryRevokes ==
  [][/\ \A t \in Customers :
          ProcessExpireUser(Operator, TRUE, t) =>
            /\ payments' = payments /\ configs' = configs /\ downloads' = downloads
            /\ IF t \in DOMAIN users
                 THEN /\ users' = [users EXCEPT ![t].expiry = Some(now - RevokeDays)]
                      /\ AccessRefusal(t, users'[t]) # ""
                 ELSE users' = users
     /\ \A c \in 1..MaxConfigs :
          (/\ DownloadCheck(Customer, c, 0, TRUE)
           /\ Customer \in DOMAIN users
           /\ users[Customer].expiry = Some(now - RevokeDays))
            => dl'.pc = "idle" /\ reply'.handler = "download_config"]_vars

\* the customer, still approved, was revoked and then refused a download
C20_Witness ==
  /\ reply = [handler |-> "download_config", text |-> "subscription expired"]
  /\ Customer \in member
  /\ users[Customer].status = "approved"
  /\ users[Customer].expiry = Some(now - RevokeDays)
  /\ flows[Operator].expire = FALSE

Pending == {p \in 1..Len(payments) : payments[p].status = "pending"}

\* C15: whenever the operator opens the review queue, it holds every pending
\* payment and nothing else, oldest submission first, and it is reported empty
\* only when no payment is pending.
C15_PendingQueueComplete ==
  [][ListPendingPayments(Operator) =>
       /\ {GetPendingPayments[i] : i \in DOMAIN GetPendingPayments} = Pending
       /\ \A i, j \in DOMAIN GetPendingPayments :
            i < j => payments[GetPendingPayments[i]].date
                       <= payments[GetPendingPayments[j]].date
       /\ (reply'.text = "no pending payments") <=> (Pending = {})]_vars

\* C16: the cancel command of a user leaves that user with no pending flow,
\* whichever flows were pending, and leaves the pending flows of every other
\* user and all users, payments and files in the store as they were.
C16_CancelClearsOwnFlows ==
  [][\A u \in UserIds :
       Cancel(u) =>
         /\ flows'[u] = NoFlow
         /\ \A v \in UserIds \ {u} : flows'[v] = flows[v]
         /\ users' = users
         /\ payments' = payments
         /\ configs' = configs]_vars

\* a customer has cancelled while the operator is at the broadcast, the expiry
\* and the upload prompt at once and the other customer at two prompts
C16_Witness ==
  /\ reply = [handler |-> "cancel", text |-> "operation cancelled"]
  /\ flows[Customer] = NoFlow
  /\ flows[Operator] = [payment |-> TRUE, config |-> Some("Airtel"),
                        broadcast |-> TRUE, expire |-> TRUE]
  /\ flows["1002"] = [payment |-> TRUE, config |-> Some("Safaricom"),
                      broadcast |-> FALSE, expire |-> FALSE]
  /\ "1002" \in DOMAIN users

\* C17: every file row with active = true has its encrypted blob under its
\* storage name.
C17_ActiveRowsHaveBlobs ==
  \A c \in DOMAIN configs : configs[c].active => configs[c].filename \in blobs

DeliveredTo(u, c) == DownloadDeliver(TRUE) /\ dl.by = u /\ dl.cid = c

RecordsOf(u, c) ==
  Cardinality({i \in 1..Len(downloads) : downloads[i].user = u /\ downloads[i].config = c})

Refused == reply'.text = "unauthorized"

Untouched ==
  /\ users' = users
  /\ payments' = payments
  /\ configs' = configs
  /\ blobs' = blobs
  /\ flows' = flows

\* C22: every operator function invoked by a user who is not an administrator
\* is refused as unauthorized and changes no user, payment or file row, no blob
\* and no pending flow; such a user never gets to the awaiting-upload state.
C22_NonAdminRefused ==
  /\ \A u \in Customers : flows[u].config = Null
  /\ [][\A u \in Customers : ~IsAdmin(u) =>
          /\ \A p \in 1..MaxPayments :
               (ApprovePayment(u, p) \/ RejectPayment(u, p)) => Refused /\ Untouched
          /\ \A cat \in Categories : HandleCategorySelection(u, cat) => Refused /\ Untouched
          /\ \A n \in FileNames : HandleUpload(u, TRUE, n, 0, TRUE, TRUE) => Refused /\ Untouched
          /\ \A c \in 1..MaxConfigs : DeleteConfig(u, c, TRUE) => Refused /\ Untouched
          /\ (BroadcastMessage(u) \/ ExpireUser(u)) => Refused /\ Untouched
          /\ ProcessBroadcast(u) => Untouched
          /\ \A t \in Customers : ProcessExpireUser(u, TRUE, t) => Untouched]_vars

\* C23: a start by an identity that has a row leaves the users table as it is;
\* a start by a new identity adds one row, with no expiry, no downloads and a
\* payment status the access checks refuse.
C23_StartIsUpsert ==
  [][\A u \in Customers :
       Start(u) =>
         IF u \in DOMAIN users
           THEN users' = users
           ELSE /\ DOMAIN users' = DOMAIN users \cup {u}
                /\ \A v \in DOMAIN users : users'[v] = users[v]
                /\ users'[u].expiry = Null
                /\ users'[u].downloads = 0
                /\ ~users'[u].admin
                /\ users'[u].status # "approved"
                /\ AccessRefusal(u, users'[u]) # ""]_vars

\* the customer, approved until day 30 and with one download, has sent /start
C23_Witness ==
  /\ reply = [handler |-> "show_welcome", text |-> "welcome"]
  /\ Customer \in DOMAIN users
  /\ users[Customer] = [status |-> "approved", expiry |-> Some(GrantDays),
                        downloads |-> 1, admin |-> FALSE]

ClaimedExtensions == {<<"h", "c">>, <<"e", "h", "i">>, <<"z", "i", "v">>,
                      <<"d", "a", "r", "k">>, <<"j", "s", "o", "n">>}

SameLetter(x, y) == x = y \/ {x, y} = {"h", "H"} \/ {x, y} = {"c", "C"}

\* name n is a stem, a dot and the word w in any case, the stem being more
\* than dots
EndsIn(n, w) ==
  /\ Len(n) > Len(w) + 1
  /\ n[Len(n) - Len(w)] = "."
  /\ \A i \in 1..Len(w) : SameLetter(n[Len(n) - Len(w) + i], w[i])
  /\ \E j \in 1..(Len(n) - Len(w) - 1) : n[j] # "."

EndsInClaimed == {n \in UploadNames : \E w \in ClaimedExtensions : EndsIn(n, w)}

EndsInOther == UploadNames \ EndsInClaimed

UploadAccepted(n, sec) ==
  /\ reply'.text = "config uploaded"
  /\ configs' = AddConfig(nextConfig, GenerateFilename(n, Operator, <<now, sec>>),
                          n, Val(flows[Operator].config), ValidityDays)
  /\ configs'[nextConfig].filename \in blobs'

UploadRejected ==
  /\ reply'.text = "invalid file type"
  /\ blobs' = blobs
  /\ configs' = configs
  /\ temp' = temp

\* C24: an upload is accepted exactly when the file name ends in a dot and one
\* of hc, ehi, ziv, dark, json in any case, after a stem; every other name,
\* also one without extension and one that is a dot and an allowed word only,
\* is rejected and leaves no blob and no row.
C24_ExtensionGate ==
  [][/\ \A n \in EndsInClaimed, sec \in Seconds :
          HandleUpload(Operator, TRUE, n, sec, TRUE, TRUE) => UploadAccepted(n, sec)
     /\ \/ UploadRejected
        \/ \A n \in EndsInOther, sec \in Seconds :
             ~HandleUpload(Operator, TRUE, n, sec, TRUE, TRUE)]_vars

\* a file named h.Hc was accepted and stored
C24_Witness ==
  /\ reply = [handler |-> "handle_upload", text |-> "config uploaded"]
  /\ 1 \in DOMAIN configs
  /\ configs[1].original = <<"h", ".", "H", "c">>
  /\ configs[1].filename \in blobs

\* C25: decrypting what encrypt_file wrote never fails and gives back exactly
\* the bytes that were encrypted, for the empty buffer, for buffers of whole
\* blocks and for every IV the encryption drew.
C25_RoundTrip ==
  /\ codec.pc # "failed"
  /\ codec.pc = "encrypted" =>
       /\ Len(Val(codec.blob)) = BlockSize * (2 + Len(codec.input) \div BlockSize)
       /\ SubSeq(Val(codec.blob), 1, BlockSize) \in IVs
  /\ codec.pc = "decrypted" => codec.output = Some(codec.input)

\* one block of bytes that all read as a full block of padding went through
C25_Witness ==
  /\ codec.pc = "decrypted"
  /\ codec.input = [i \in 1..BlockSize |-> BlockSize]
  /\ SubSeq(Val(codec.blob), 1, BlockSize) # [i \in 1..BlockSize |-> 0]
  /\ codec.output = Some(codec.input)

\* C26: right after the approval of a pending payment the owner's row exists,
\* has payment status approved and an expiry strictly later than the time of
\* approval, whatever the owner's state was before.
C26_ApprovalGrantsAccess ==
  [][\A p \in 1..Len(payments) :
       (ApprovePayment(Operator, p) /\ payments[p].status = "pending") =>
         LET o == payments[p].user
         IN /\ o \in DOMAIN users'
            /\ users'[o].status = "approved"
            /\ users'[o].expiry # Null
            /\ Val(users'[o].expiry) > now]_vars

\* C27: a customer with status approved and an expiry in the future loses that
\* only when the expiry passes, when the operator rejects one of the customer's
\* payments or when the operator force-expires the customer; the customer's
\* own start, payment proof, cancel and download leave it in place.
C27_EligibleUntilExpiry ==
  [][(/\ Customer \in DOMAIN users
      /\ EligibleStrict(users[Customer])
      /\ users[Customer].expiry # Null
      /\ ~(/\ Customer \in DOMAIN users'
           /\ users'[Customer].status = "approved"
           /\ users'[Customer].expiry # Null
           /\ Val(users'[Customer].expiry) > now'))
       => \/ now' >= Val(users[Customer].expiry)
          \/ \E p \in 1..Len(payments) :
               payments[p].user = Customer /\ RejectPayment(Operator, p)
          \/ ProcessExpireUser(Operator, TRUE, Customer)]_vars

Prompts == {"broadcast_message", "expire_user"}

\* C29: the operator's next message is broadcast only if the broadcast prompt
\* was the flow entered last and was not cancelled since: after the cancel
\* command, and after the Cancel button pressed under the broadcast or the
\* forced-expiry prompt, the next message goes neither to the broadcast nor to
\* the forced expiry; after the forced-expiry prompt it goes to the forced
\* expiry and after the broadcast prompt to the broadcast.
C29_CancelledPromptIsInert ==
  [][/\ Cancel(Operator) => Dispatch(Operator)' = "other"
     /\ (ShowAdminPanel(Operator) /\ reply.handler \in Prompts)
          => Dispatch(Operator)' \notin {"broadcast", "expire"}
     /\ ExpireUser(Operator) => Dispatch(Operator)' = "expire"
     /\ BroadcastMessage(Operator) => Dispatch(Operator)' = "broadcast"]_vars

FlagsSet(u) ==
  {f \in {"payment", "config", "broadcast", "expire"} :
     IF f = "config" THEN flows[u].config # Null ELSE flows[u][f]}

\* C30: every user has at most one of the flags awaiting_payment,
\* awaiting_config, awaiting_broadcast and awaiting_expire_user set, in every
\* reachable state.
C30_OneFlowPerUser ==
  \A u \in UserIds : Cardinality(FlagsSet(u)) <= 1

=============================================================================
